---- MODULE Spec2Model ----
(***************************************************************************)
(* Convolution lowering (src/frontend/convolution.ts) over the view        *)
(* algebra, and the backend buffer contract exercised by                   *)
(* src/backend/cpu.test.ts.                                                *)
(*                                                                         *)
(* Numbers that the code tests with Number.isInteger (strides, dilations)  *)
(* are carried in HALF UNITS in the arguments of checkConvShape, so that   *)
(* 1.5 is the value 3 and 2 is the value 4; Num() converts an integral     *)
(* half-unit value to the integer it denotes.                              *)
(***************************************************************************)
EXTENDS Integers, Sequences, FiniteSets, TLC

VARIABLES
  \* the convolution functions
  pc,          \* which function has been applied to args
  args,        \* the arguments
  outShape,    \* what checkConvShape returned or that it threw
  views,       \* the views prepareConv, applyDilation or pad and shrink returned
  pooled,      \* the view pool returned
  out,         \* the multiplied and reduced result
  \* the backend
  refcount,    \* per handle, its reference count
  held,        \* per handle, whether its physical memory is held
  released,    \* per handle, how many times its memory was released
  data,        \* per handle, the current contents
  writer,      \* per handle and position, the execute that wrote it last
  expected,    \* per handle, the contents the issued executes leave in it
  tainted,     \* per handle, whether those contents are undefined (aliasing)
  issued,      \* the number of executes issued so far
  queue,       \* the commands the device has not completed, in order
  readResult,  \* what the read that has just completed returned
  lastError,   \* the error the step just taken threw and the call it names
  lastOp,      \* the last step taken
  \* SyncReader.read
  valsGPU,     \* the staging buffer: its length and the spans filled so far
  passIndex,   \* the alpha mode of the pass under way (i of the outer loop)
  chunkIndex,  \* the whole canvases read in this pass (j of the inner loop)
  offset,      \* the staging offset the next readData is given
  result       \* the array read returned

convVars == <<pc, args, outShape, views, pooled, out>>
backendVars == <<refcount, held, released, data, writer, expected, tainted,
                 issued, queue, readResult, lastError, lastOp>>
readerVars == <<valsGPU, passIndex, chunkIndex, offset, result>>
vars == <<pc, args, outShape, views, pooled, out,
          refcount, held, released, data, writer, expected, tainted,
          issued, queue, readResult, lastError, lastOp,
          valsGPU, passIndex, chunkIndex, offset, result>>

----------------------------------------------------------------------------
(* Bounds of the model *)
MaxBatch == 1
MaxChan == 2
MaxIn == 5
MaxKernel == 3
MaxStride == 4
MaxDilation == 2
MaxPad == 1
MaxExtent == 2
MaxRef == 2
MaxExec == 2

----------------------------------------------------------------------------
(* Arithmetic and sequence helpers *)

Max(a, b) == IF a >= b THEN a ELSE b

\* Math.ceil(a / s) for an integer a and a positive integer s
Ceil(a, s) == -((-a) \div s)

RECURSIVE ProdFrom(_, _)
\* product of shape[a..Len(shape)]
ProdFrom(shape, a) ==
  IF a > Len(shape) THEN 1 ELSE shape[a] * ProdFrom(shape, a + 1)

prod(shape) == ProdFrom(shape, 1)

rep(n, x) == [j \in 1..n |-> x]

RECURSIVE FlatPairs(_)
\* xs.flatMap(p => p) for a sequence of sequences
FlatPairs(xs) ==
  IF xs = <<>> THEN <<>> ELSE Head(xs) \o FlatPairs(Tail(xs))

\* Array.prototype.slice(from, to) with 0-based, already normalised bounds
Slice(s, from, to) == SubSeq(s, from + 1, to)

----------------------------------------------------------------------------
(* The view algebra: a view is its shape and, for every logical index in   *)
(* row-major order, the backing offset it addresses (PadOffset for a       *)
(* padded position).  ok = FALSE is a rejected movement operation.         *)

PadOffset == -1

Invalid == [ok |-> FALSE, shape |-> <<>>, idx |-> <<>>]

ValidShape(shape) == \A a \in 1..Len(shape) : shape[a] >= 0

RECURSIVE RavelTo(_, _, _)
\* row-major position of the multi-index mi (0-based entries) in shape
RavelTo(mi, shape, a) ==
  IF a = 0 THEN 0 ELSE RavelTo(mi, shape, a - 1) * shape[a] + mi[a]

Ravel(mi, shape) == RavelTo(mi, shape, Len(shape))

Unravel(n, shape) ==
  [a \in 1..Len(shape) |-> (n \div ProdFrom(shape, a + 1)) % shape[a]]

At(st, mi) == st.idx[Ravel(mi, st.shape) + 1]

fromShape(shape) ==
  [ok |-> TRUE, shape |-> shape, idx |-> [n \in 1..prod(shape) |-> n - 1]]

reshape(st, newShape) ==
  IF st.ok /\ ValidShape(newShape) /\ prod(newShape) = prod(st.shape)
  THEN [ok |-> TRUE, shape |-> newShape, idx |-> st.idx]
  ELSE Invalid

permute(st, perm) ==
  IF st.ok /\ Len(perm) = Len(st.shape)
     /\ {perm[a] : a \in 1..Len(perm)} = 0..(Len(st.shape) - 1)
  THEN LET newShape == [a \in 1..Len(perm) |-> st.shape[perm[a] + 1]]
           inv == [b \in 1..Len(perm) |->
                     CHOOSE a \in 1..Len(perm) : perm[a] + 1 = b]
       IN [ok |-> TRUE, shape |-> newShape,
           idx |-> [n \in 1..prod(newShape) |->
                      LET mi == Unravel(n - 1, newShape)
                      IN At(st, [b \in 1..Len(perm) |-> mi[inv[b]]])]]
  ELSE Invalid

pad(st, p) ==
  IF st.ok /\ Len(p) = Len(st.shape)
     /\ \A a \in 1..Len(p) : p[a][1] >= 0 /\ p[a][2] >= 0
  THEN LET newShape == [a \in 1..Len(p) |-> st.shape[a] + p[a][1] + p[a][2]]
       IN [ok |-> TRUE, shape |-> newShape,
           idx |-> [n \in 1..prod(newShape) |->
                      LET mi == Unravel(n - 1, newShape)
                      IN IF \A a \in 1..Len(p) :
                              /\ mi[a] >= p[a][1]
                              /\ mi[a] < p[a][1] + st.shape[a]
                         THEN At(st, [a \in 1..Len(p) |-> mi[a] - p[a][1]])
                         ELSE PadOffset]]
  ELSE Invalid

\* a plausible slip: the range taken from the start of the axis
shrinkFromStart(st, p) ==
  IF st.ok /\ Len(p) = Len(st.shape)
     /\ \A a \in 1..Len(p) :
          0 <= p[a][1] /\ p[a][1] <= p[a][2] /\ p[a][2] <= st.shape[a]
  THEN LET newShape == [a \in 1..Len(p) |-> p[a][2] - p[a][1]]
       IN [ok |-> TRUE, shape |-> newShape,
           idx |-> [n \in 1..prod(newShape) |->
                      At(st, Unravel(n - 1, newShape))]]
  ELSE Invalid

shrink(st, p) ==
  IF st.ok /\ Len(p) = Len(st.shape)
     /\ \A a \in 1..Len(p) :
          0 <= p[a][1] /\ p[a][1] <= p[a][2] /\ p[a][2] <= st.shape[a]
  THEN LET newShape == [a \in 1..Len(p) |-> p[a][2] - p[a][1]]
       IN [ok |-> TRUE, shape |-> newShape,
           idx |-> [n \in 1..prod(newShape) |->
                      LET mi == Unravel(n - 1, newShape)
                      IN At(st, [a \in 1..Len(p) |-> mi[a] + p[a][1]])]]
  ELSE Invalid

repeat(st, reps) ==
  IF st.ok /\ Len(reps) = Len(st.shape)
     /\ \A a \in 1..Len(reps) : reps[a] >= 1
  THEN LET newShape == [a \in 1..Len(reps) |-> st.shape[a] * reps[a]]
       IN [ok |-> TRUE, shape |-> newShape,
           idx |-> [n \in 1..prod(newShape) |->
                      LET mi == Unravel(n - 1, newShape)
                      IN At(st, [a \in 1..Len(reps) |-> mi[a] % st.shape[a]])]]
  ELSE Invalid

\* moveaxis(src, dst): the permutation that takes axis src out and
\* reinserts it at position dst
moveaxis(st, src, dst) ==
  IF st.ok /\ src \in 0..(Len(st.shape) - 1) /\ dst \in 0..(Len(st.shape) - 1)
  THEN LET r == Len(st.shape)
           rest == [j \in 1..(r - 1) |-> IF j - 1 < src THEN j - 1 ELSE j]
           perm == [j \in 1..r |->
                      IF j - 1 < dst THEN rest[j]
                      ELSE IF j - 1 = dst THEN src
                      ELSE rest[j - 1]]
       IN permute(st, perm)
  ELSE Invalid

----------------------------------------------------------------------------
(* checkConvShape *)

\* Number.isInteger on a half-unit value
IsInteger(h) == h % 2 = 0

\* the integer an integral half-unit value denotes
Num(h) == h \div 2

Threw == [threw |-> TRUE, shape |-> <<>>]

Returned(shape) == [threw |-> FALSE, shape |-> shape]

\* kernelSize of checkConvShape
KernelSize(k, rhsDilation) == (k - 1) * rhsDilation + 1

\* inSize of checkConvShape
InSize(x, lhsDilation, lo, hi) == Max((x - 1) * lhsDilation + 1, 0) + lo + hi

\* a plausible slip: the kernel test dropped, the extent clamped instead
KernelFitsClamped(kernelSize, inSize) == TRUE

\* the negation of the test "kernelSize > inSize"
KernelFits(kernelSize, inSize) == ~(kernelSize > inSize)

\* a plausible slip: Math.floor for Math.ceil
OutExtentFloor(inSize, kernelSize, stride) ==
  (inSize - kernelSize + 1) \div stride

\* the extent pushed onto outShape
OutExtent(inSize, kernelSize, stride) ==
  Ceil(inSize - kernelSize + 1, stride)

RECURSIVE CheckSpatialDims(_, _, _, _, _)
\* the loop "for (let i = 0; i < n; i++)" of checkConvShape; i is 1-based
CheckSpatialDims(lhsShape, rhsShape, p, i, acc) ==
  IF i > Len(lhsShape) - 2 THEN Returned(acc)
  ELSE IF p.strides[i] <= 0 \/ ~IsInteger(p.strides[i]) THEN Threw
  ELSE IF Len(p.padding[i]) # 2
          \/ ~(\A j \in 1..Len(p.padding[i]) : p.padding[i][j] >= 0) THEN Threw
  ELSE IF p.lhsDilation[i] <= 0 \/ ~IsInteger(p.lhsDilation[i]) THEN Threw
  ELSE IF p.rhsDilation[i] <= 0 \/ ~IsInteger(p.rhsDilation[i]) THEN Threw
  ELSE LET x == lhsShape[i + 2]
           k == rhsShape[i + 2]
       IN IF k <= 0 THEN Threw
          ELSE LET kernelSize == KernelSize(k, Num(p.rhsDilation[i]))
                   inSize == InSize(x, Num(p.lhsDilation[i]),
                                    p.padding[i][1], p.padding[i][2])
               IN IF ~KernelFits(kernelSize, inSize) THEN Threw
                  ELSE CheckSpatialDims(lhsShape, rhsShape, p, i + 1,
                         Append(acc, OutExtent(inSize, kernelSize,
                                               Num(p.strides[i]))))

checkConvShape(lhsShape, rhsShape, p) ==
  IF Len(lhsShape) # Len(rhsShape) THEN Threw
  ELSE LET n == Len(lhsShape) - 2
       IN IF n < 0 THEN Threw
          ELSE IF Len(p.strides) # n THEN Threw
          ELSE IF Len(p.padding) # n THEN Threw
          ELSE IF Len(p.lhsDilation) # n THEN Threw
          ELSE IF Len(p.rhsDilation) # n THEN Threw
          ELSE IF lhsShape[2] # rhsShape[2] THEN Threw
          ELSE CheckSpatialDims(lhsShape, rhsShape, p, 1,
                                <<lhsShape[1], rhsShape[1]>>)

----------------------------------------------------------------------------
(* pool, applyDilation, prepareConv: strides and dilations are integers    *)

\* o_ of pool, for one axis
PoolOut(i, k, s, d) == Ceil(i - d * (k - 1), s)

\* f_ of pool, for one axis
PoolFactor(i, k, s, d) ==
  1 + (IF PoolOut(i, k, s, d) * s > i - d * (k - 1) THEN 1 ELSE 0)

pool(st, ks, strides, dilation) ==
  IF ~st.ok \/ Len(st.shape) < Len(ks) THEN Invalid
  ELSE
    LET m == Len(ks)
        r == Len(st.shape)
        \* slice(0, -m) and slice(-m); -0 is 0 in both
        noop == IF m = 0 THEN <<>> ELSE Slice(st.shape, 0, r - m)
        i_ == IF m = 0 THEN st.shape ELSE Slice(st.shape, r - m, r)
        s_ == strides
        d_ == dilation
        o_ == [j \in 1..m |-> PoolOut(i_[j], ks[j], s_[j], d_[j])]
        f_ == [j \in 1..m |-> PoolFactor(i_[j], ks[j], s_[j], d_[j])]
        w_ == [j \in 1..m |-> i_[j] * f_[j] + d_[j]]
        keep == [a \in 1..Len(noop) |-> <<0, noop[a]>>]
    IN IF \E j \in 1..m : i_[j] = 0 THEN Invalid
       ELSE
         LET st1 == repeat(st, rep(Len(noop), 1)
                        \o [j \in 1..m |-> Ceil(ks[j] * w_[j], i_[j])])
             st2 == reshape(
                      shrink(st1, keep
                        \o [j \in 1..m |-> <<0, ks[j] * w_[j]>>]),
                      noop \o FlatPairs([j \in 1..m |-> <<ks[j], w_[j]>>]))
             st3 == reshape(
                      shrink(st2, keep
                        \o FlatPairs([j \in 1..m |->
                             << <<0, ks[j]>>, <<0, o_[j] * s_[j]>> >>])),
                      noop \o FlatPairs([j \in 1..m |->
                                           <<ks[j], o_[j], s_[j]>>]))
             st4 == reshape(
                      shrink(st3, keep
                        \o FlatPairs([j \in 1..m |->
                             << <<0, ks[j]>>, <<0, o_[j]>>, <<0, 1>> >>])),
                      noop \o FlatPairs([j \in 1..m |-> <<ks[j], o_[j]>>]))
         IN permute(st4,
              [a \in 1..Len(noop) |-> a - 1]
              \o [j \in 1..m |-> Len(noop) + 2 * (j - 1) + 1]
              \o [j \in 1..m |-> Len(noop) + 2 * (j - 1)])

applyDilation(st, dilation) ==
  IF \A j \in 1..Len(dilation) : dilation[j] = 1 THEN st
  ELSE IF ~st.ok \/ Len(st.shape) # Len(dilation) + 2 THEN Invalid
  ELSE
    LET s_ == dilation
        a == st.shape[1]
        b == st.shape[2]
        k_ == Slice(st.shape, 2, Len(st.shape))
        n == Len(k_)
        st1 == reshape(st, <<a, b>> \o FlatPairs([j \in 1..n |-> <<k_[j], 1>>]))
        st2 == pad(st1, << <<0, 0>>, <<0, 0>> >>
                     \o FlatPairs([j \in 1..n |->
                          << <<0, 0>>, <<0, s_[j] - 1>> >>]))
        st3 == reshape(st2, <<a, b>> \o [j \in 1..n |-> k_[j] * s_[j]])
    IN shrink(st3, << <<0, a>>, <<0, b>> >>
                 \o [j \in 1..n |-> <<0, (k_[j] - 1) * s_[j] + 1>>])

prepareConv(stX, stY, params) ==
  LET n == Len(stX.shape) - 2
      ks == Slice(stY.shape, 2, Len(stY.shape))
      x1 == applyDilation(stX, params.lhsDilation)
      x2 == pad(x1, << <<0, 0>>, <<0, 0>> >> \o params.padding)
      x3 == pool(x2, ks, params.strides, params.rhsDilation)
      x4 == IF x3.ok
            THEN reshape(moveaxis(x3, 1, n + 1),
                   <<x3.shape[1], 1>> \o Slice(x3.shape, 2, n + 2)
                     \o <<x3.shape[2] * prod(ks)>>)
            ELSE Invalid
      y1 == reshape(stY, <<stY.shape[1]>> \o rep(n, 1)
                           \o <<stY.shape[2] * prod(ks)>>)
  IN <<x4, y1>>

----------------------------------------------------------------------------
(* conv: broadcast multiply of the two prepared views, summed over the     *)
(* final axis.  Element values are carried in half units so that the       *)
(* kernel [2, 0.5, -1] of the 1d convolution test is <<4, 1, -2>>.         *)

\* lhs buffer: np.array([[[1, 2, 3, 4, 5]]]) continued row-major
lhsData(off) == IF off = PadOffset THEN 0 ELSE off + 1

KernelHalves == <<4, 1, -2>>

\* rhs buffer, in half units
rhsData(off) ==
  IF off = PadOffset THEN 0
  ELSE IF off < Len(KernelHalves) THEN KernelHalves[off + 1]
  ELSE off + 2

\* shape sb aligned to the right of a shape of rank r, padded with 1s
AlignRight(sb, r) == rep(r - Len(sb), 1) \o sb

Broadcastable(sa, sb) ==
  LET r == Max(Len(sa), Len(sb))
      a == AlignRight(sa, r)
      b == AlignRight(sb, r)
  IN \A j \in 1..r : a[j] = b[j] \/ a[j] = 1 \/ b[j] = 1

BroadcastShape(sa, sb) ==
  LET r == Max(Len(sa), Len(sb))
      a == AlignRight(sa, r)
      b == AlignRight(sb, r)
  IN [j \in 1..r |-> IF a[j] = 1 THEN b[j] ELSE a[j]]

\* the element of view st at index mi of the broadcast shape
BroadcastAt(st, mi) ==
  LET r == Len(mi)
      off == r - Len(st.shape)
  IN At(st, [j \in 1..Len(st.shape) |->
               IF st.shape[j] = 1 THEN 0 ELSE mi[j + off]])

RECURSIVE SumTo(_, _, _, _)
\* sum over the final axis, positions 0..r-1, of lhs * rhs at prefix mo
SumTo(vx, vy, mo, r) ==
  IF r = 0 THEN 0
  ELSE SumTo(vx, vy, mo, r - 1)
       + lhsData(BroadcastAt(vx, Append(mo, r - 1)))
         * rhsData(BroadcastAt(vy, Append(mo, r - 1)))

conv(vx, vy) ==
  LET full == BroadcastShape(vx.shape, vy.shape)
      os == SubSeq(full, 1, Len(full) - 1)
  IN [shape |-> os,
      vals |-> [n \in 1..prod(os) |->
                  SumTo(vx, vy, Unravel(n - 1, os), full[Len(full)])]]

----------------------------------------------------------------------------
(* Inputs of the convolution functions *)

ConvArgs(lhsShape, rhsShape, strides, padding, lhsDilation, rhsDilation) ==
  [op |-> "conv", lhsShape |-> lhsShape, rhsShape |-> rhsShape,
   params |-> [strides |-> strides, padding |-> padding,
               lhsDilation |-> lhsDilation, rhsDilation |-> rhsDilation]]

PoolArgs(shape, ks, strides, dilation) ==
  [op |-> "pool", shape |-> shape, ks |-> ks,
   strides |-> strides, dilation |-> dilation]

\* well-formed one-dimensional convolutions of one channel, zero-extent
\* inputs included, over every stride, padding and dilation
Inputs1D ==
  { ConvArgs(<<1, 1, x>>, <<1, 1, k>>, <<2 * s>>, <<<<pl, ph>>>>,
             <<2 * ld>>, <<2 * rd>>) :
      x \in 0..MaxIn, k \in 1..MaxKernel, s \in 1..MaxStride,
      pl \in 0..MaxPad, ph \in 0..MaxPad,
      ld \in 1..MaxDilation, rd \in 1..MaxDilation }

\* batches, the empty one included, and several input and output channels
InputsChannels ==
  { ConvArgs(<<b, c, x>>, <<o, c, k>>, <<2 * s>>, <<<<pl, 0>>>>,
             <<2>>, <<2 * rd>>) :
      b \in 0..MaxBatch, c \in 1..MaxChan, o \in 1..MaxChan,
      x \in {2, 4}, k \in 1..2, s \in 1..2,
      pl \in 0..1, rd \in 1..2 }

\* well-formed two-dimensional convolutions
Inputs2D ==
  { ConvArgs(<<1, 1, x1, x2>>, <<1, 1, k1, k2>>, <<2 * s1, 2 * s2>>,
             << <<0, 0>>, <<pl, 0>> >>, <<2, 2 * ld>>, <<2 * rd, 2>>) :
      x1 \in 2..3, x2 \in 0..2, k1 \in 1..2, k2 \in 1..2,
      s1 \in 1..2, s2 \in 1..MaxStride,
      pl \in 0..MaxPad, ld \in 1..MaxDilation, rd \in 1..MaxDilation }

\* every stride, padding and dilation value, the non-positive and the
\* fractional ones included (half units)
InputsBadValue ==
  { ConvArgs(<<1, 1, 3>>, <<1, 1, 2>>, <<s>>, <<<<pl, ph>>>>, <<ld>>, <<rd>>) :
      s \in (-2)..(2 * MaxStride), pl \in (-1)..MaxPad, ph \in (-1)..MaxPad,
      ld \in (-2)..(2 * MaxDilation), rd \in (-2)..(2 * MaxDilation) }

\* ranks and list lengths that disagree
InputsBadRank ==
  { ConvArgs(l, r, s, p, ld, rd) :
      l \in { <<1>>, <<1, 1>>, <<1, 1, 3>>, <<1, 1, 3, 3>> },
      r \in { <<1>>, <<1, 1>>, <<1, 2>>, <<1, 1, 2>>, <<1, 2, 2>>,
              <<1, 1, 0>>, <<1, 1, 2, 2>> },
      s \in { <<>>, <<2>>, <<2, 2>> },
      p \in { <<>>, << <<0, 0>> >>, << <<0>> >>, << <<0, 0>>, <<0, 0>> >> },
      ld \in { <<>>, <<2>>, <<2, 2>> },
      rd \in { <<>>, <<2>>, <<2, 2>> } }

ConvInputs ==
  Inputs1D \cup InputsChannels \cup Inputs2D \cup InputsBadValue
  \cup InputsBadRank

PoolInputs ==
  { PoolArgs(lead \o <<i>>, <<k>>, <<s>>, <<d>>) :
      lead \in { <<>>, <<2>> }, i \in 1..MaxIn, k \in 1..MaxKernel,
      s \in 1..MaxStride, d \in 1..MaxDilation }
  \cup
  { PoolArgs(<<i1, i2>>, <<k1, k2>>, <<s1, s2>>, <<d1, 1>>) :
      i1 \in 2..3, i2 \in 1..3, k1 \in 1..2, k2 \in 1..2,
      s1 \in 1..2, s2 \in 1..MaxStride, d1 \in 1..MaxDilation }

\* the integer parameters a validated ConvParams denotes
NumParams(p) ==
  [strides |-> [j \in 1..Len(p.strides) |-> Num(p.strides[j])],
   padding |-> p.padding,
   lhsDilation |-> [j \in 1..Len(p.lhsDilation) |-> Num(p.lhsDilation[j])],
   rhsDilation |-> [j \in 1..Len(p.rhsDilation) |-> Num(p.rhsDilation[j])]]

----------------------------------------------------------------------------
(* The convolution functions applied to the inputs *)

None == <<>>

NoRead == [h |-> 0, bytes |-> <<>>, writers |-> <<>>, exec |-> 0,
           want |-> <<>>, sure |-> FALSE]

NoExpr ==
  [kind |-> "none", in1 |-> 0, in2 |-> 0, out |-> 0, flip |-> FALSE,
   extent |-> 0, dtype |-> "none"]

NoError == <<"none", "none">>

\* the step just taken: a call or a device step, whether the call named a
\* handle whose count was zero (dead) or had arguments that do not pass
\* validation (bad), and for a completed execute its expression and the
\* contents its inputs had when it started
Step(op, dead, e, snap) ==
  [op |-> op, dead |-> dead, bad |-> FALSE, e |-> e, snap |-> snap]

\* no staging buffer
NoStaging == [byteLength |-> 0, spans |-> <<>>, threw |-> FALSE]

\* a reader that has not been asked for anything
ReaderIdle ==
  /\ valsGPU = NoStaging
  /\ passIndex = 0
  /\ chunkIndex = 0
  /\ offset = 0
  /\ result = None

\* a backend with no buffer and no work
BackendIdle ==
  /\ refcount = <<>>
  /\ held = <<>>
  /\ released = <<>>
  /\ data = <<>>
  /\ writer = <<>>
  /\ expected = <<>>
  /\ tainted = <<>>
  /\ issued = 0
  /\ queue = <<>>
  /\ readResult = NoRead
  /\ lastError = NoError
  /\ lastOp = Step("init", FALSE, NoExpr, <<>>)

Init ==
  /\ pc = "start"
  /\ args \in ConvInputs \cup PoolInputs
  /\ outShape = None
  /\ views = None
  /\ pooled = None
  /\ out = None
  /\ BackendIdle
  /\ ReaderIdle

\* checkConvShape(lhsShape, rhsShape, params)
CheckConvShape ==
  /\ pc = "start"
  /\ args.op = "conv"
  /\ outShape' = checkConvShape(args.lhsShape, args.rhsShape, args.params)
  /\ pc' = "checked"
  /\ UNCHANGED <<args, views, pooled, out>>
  /\ UNCHANGED backendVars
  /\ UNCHANGED readerVars

\* prepareConv on the identity views of the checked operands
PrepareConv ==
  /\ pc = "checked"
  /\ ~outShape.threw
  /\ views' = prepareConv(fromShape(args.lhsShape), fromShape(args.rhsShape),
                          NumParams(args.params))
  /\ pc' = "prepared"
  /\ UNCHANGED <<args, outShape, pooled, out>>
  /\ UNCHANGED backendVars
  /\ UNCHANGED readerVars

\* the multiply and sum over the final axis of the prepared views
Conv ==
  /\ pc = "prepared"
  /\ views[1].ok /\ views[2].ok
  /\ Broadcastable(views[1].shape, views[2].shape)
  /\ out' = conv(views[1], views[2])
  /\ pc' = "done"
  /\ UNCHANGED <<args, outShape, views, pooled>>
  /\ UNCHANGED backendVars
  /\ UNCHANGED readerVars

\* pool(st, ks, strides, dilation) on an identity view
Pool ==
  /\ pc = "start"
  /\ args.op = "pool"
  /\ pooled' = pool(fromShape(args.shape), args.ks, args.strides,
                    args.dilation)
  /\ pc' = "pooled"
  /\ UNCHANGED <<args, outShape, views, out>>
  /\ UNCHANGED backendVars
  /\ UNCHANGED readerVars

Next == CheckConvShape \/ PrepareConv \/ Conv \/ Pool

Spec == Init /\ [][Next]_vars

----------------------------------------------------------------------------
(* Properties of checkConvShape *)

Checked == args.op = "conv" /\ pc = "checked"

Accepted == Checked /\ ~outShape.threw

Spatial == Len(args.lhsShape) - 2

\* the output shape with the input extent of dimension i given by InExt
ShapeFormula(InExt(_)) ==
  <<args.lhsShape[1], args.rhsShape[1]>>
  \o [i \in 1..Spatial |->
        Ceil(InExt(i)
             - ((args.rhsShape[i + 2] - 1) * Num(args.params.rhsDilation[i]) + 1)
             + 1,
             Num(args.params.strides[i]))]

PadSum(i) == args.params.padding[i][1] + args.params.padding[i][2]

InExtUnclamped(i) ==
  (args.lhsShape[i + 2] - 1) * Num(args.params.lhsDilation[i]) + 1 + PadSum(i)

InExtClamped(i) ==
  Max((args.lhsShape[i + 2] - 1) * Num(args.params.lhsDilation[i]) + 1, 0)
  + PadSum(i)

\* C1 as stated: every accepted call returns [batch, outChannels, ...] with
\* spatial extent ceil((inSize - kernelSize + 1) / stride), where
\* inSize = (x - 1) * lhsDilation + 1 + padLow + padHigh
C1_AsStated == Accepted => outShape.shape = ShapeFormula(InExtUnclamped)

\* C1 amended: the same with the dilated input extent clamped at zero,
\* inSize = max((x - 1) * lhsDilation + 1, 0) + padLow + padHigh
C1_OutputShape == Accepted => outShape.shape = ShapeFormula(InExtClamped)

\* an accepted call with stride, lhs dilation and rhs dilation all 2
C1_Witness ==
  /\ Accepted
  /\ args.lhsShape = <<1, 1, 5>> /\ args.rhsShape = <<1, 1, 2>>
  /\ args.params.strides = <<4>> /\ args.params.padding = << <<0, 1>> >>
  /\ args.params.lhsDilation = <<4>> /\ args.params.rhsDilation = <<4>>
  /\ outShape.shape = <<1, 1, 4>>

\* a value that is not a positive integer (half units)
NotPositiveInteger(h) == h <= 0 \/ h % 2 # 0

BadList(l) == \E i \in 1..Len(l) : NotPositiveInteger(l[i])

NegativePadding ==
  \E i \in 1..Len(args.params.padding) :
    \E j \in 1..Len(args.params.padding[i]) : args.params.padding[i][j] < 0

\* the number of positions of an axis of x elements spaced d apart
DilatedExtent(x, d) == IF x = 0 THEN 0 ELSE (x - 1) * d + 1

\* dimension i has well-formed parameters and its dilated kernel is larger
\* than its dilated and padded input
KernelExceeds(i) ==
  /\ i <= Len(args.rhsShape) - 2
  /\ i <= Len(args.params.padding) /\ Len(args.params.padding[i]) = 2
  /\ i <= Len(args.params.lhsDilation)
  /\ i <= Len(args.params.rhsDilation)
  /\ ~NotPositiveInteger(args.params.lhsDilation[i])
  /\ ~NotPositiveInteger(args.params.rhsDilation[i])
  /\ DilatedExtent(args.rhsShape[i + 2], Num(args.params.rhsDilation[i]))
       > DilatedExtent(args.lhsShape[i + 2], Num(args.params.lhsDilation[i]))
         + PadSum(i)

RankMismatch == Len(args.lhsShape) # Len(args.rhsShape)

LengthMismatch ==
  \/ Len(args.params.strides) # Spatial
  \/ Len(args.params.padding) # Spatial
  \/ Len(args.params.lhsDilation) # Spatial
  \/ Len(args.params.rhsDilation) # Spatial

ChannelMismatch ==
  /\ Len(args.lhsShape) >= 2 /\ Len(args.rhsShape) >= 2
  /\ args.lhsShape[2] # args.rhsShape[2]

\* C2: checkConvShape throws whenever the ranks differ, a parameter list
\* has the wrong length, the channel counts differ, a stride or dilation
\* is not a positive integer, a padding entry is negative, or a dilated
\* kernel is larger than the dilated and padded input
C2_Rejects ==
  (/\ Checked
   /\ \/ RankMismatch
      \/ LengthMismatch
      \/ ChannelMismatch
      \/ BadList(args.params.strides)
      \/ BadList(args.params.lhsDilation)
      \/ BadList(args.params.rhsDilation)
      \/ NegativePadding
      \/ \E i \in 1..Spatial : KernelExceeds(i))
  => outShape.threw

\* a call rejected only because the kernel does not fit
C2_Witness ==
  /\ Checked /\ outShape.threw
  /\ ~RankMismatch /\ ~LengthMismatch /\ ~ChannelMismatch
  /\ ~BadList(args.params.strides)
  /\ ~BadList(args.params.lhsDilation) /\ ~BadList(args.params.rhsDilation)
  /\ ~NegativePadding
  /\ Spatial = 1 /\ KernelExceeds(1)
  /\ args.params.strides = <<8>>

----------------------------------------------------------------------------
(* Properties of pool *)

Pooled == args.op = "pool" /\ pc = "pooled"

PoolRank == Len(args.ks)

PoolLead == SubSeq(args.shape, 1, Len(args.shape) - PoolRank)

\* extent of pooled axis j of the input
PoolIn(j) == args.shape[Len(PoolLead) + j]

\* d * (k - 1) < i on every pooled axis
PoolPre ==
  \A j \in 1..PoolRank : args.dilation[j] * (args.ks[j] - 1) < PoolIn(j)

\* o = ceil((i - d * (k - 1)) / s), written without Ceil
PoolOutSpec(j) ==
  CHOOSE o \in 0..PoolIn(j) :
    /\ o * args.strides[j] >= PoolIn(j) - args.dilation[j] * (args.ks[j] - 1)
    /\ (o - 1) * args.strides[j]
         < PoolIn(j) - args.dilation[j] * (args.ks[j] - 1)

PoolShapeSpec ==
  PoolLead \o [j \in 1..PoolRank |-> PoolOutSpec(j)] \o args.ks

\* the element of the input that index mi of the pooled view stands for:
\* (leading, outputPos * s + windowPos * d) on each pooled axis
PoolSource(mi) ==
  Ravel([a \in 1..Len(args.shape) |->
           IF a <= Len(PoolLead) THEN mi[a]
           ELSE LET j == a - Len(PoolLead)
                IN mi[Len(PoolLead) + j] * args.strides[j]
                   + mi[Len(PoolLead) + PoolRank + j] * args.dilation[j]],
        args.shape)

PoolAddressesWindows ==
  /\ pooled.ok
  /\ pooled.shape = PoolShapeSpec
  /\ \A n \in 1..prod(PoolShapeSpec) :
       pooled.idx[n] = PoolSource(Unravel(n - 1, PoolShapeSpec))

\* C3: when d * (k - 1) < i on every pooled axis, pool returns a view of
\* shape [...leading, ...o, ...ks] whose element at (leading, outputPos,
\* windowPos) is the input element at outputPos * s + windowPos * d
C3_AsStated == (Pooled /\ PoolPre) => PoolAddressesWindows

\* [1,2,3,4,5] with k = 3, s = 1, d = 1 reads [[1,2,3],[2,3,4],[3,4,5]]
C3_TestCase ==
  (/\ Pooled
   /\ args = PoolArgs(<<5>>, <<3>>, <<1>>, <<1>>))
  => /\ pooled.ok /\ pooled.shape = <<3, 3>>
     /\ [n \in 1..9 |-> lhsData(pooled.idx[n])]
          = <<1, 2, 3, 2, 3, 4, 3, 4, 5>>

\* the second shrink of pool, [0, o * s], fits the axis of extent i * f + d
StrideShrinkFits(j) ==
  PoolOut(PoolIn(j), args.ks[j], args.strides[j], args.dilation[j])
    * args.strides[j]
  <= PoolIn(j)
       * PoolFactor(PoolIn(j), args.ks[j], args.strides[j], args.dilation[j])
     + args.dilation[j]

\* C4: with f in {1, 2} as computed, every shrink of pool lies within the
\* axis it is applied to (in particular o * s <= i * f + d) and every
\* reshape keeps the element count, whenever d * (k - 1) < i
C4_AsStated ==
  (Pooled /\ PoolPre) =>
    (pooled.ok /\ \A j \in 1..PoolRank : StrideShrinkFits(j))

\* what does hold: pool is rejected exactly when some stride shrink does not
\* fit, and addresses the windows whenever it is not rejected
Pool_WhenInBounds ==
  (Pooled /\ PoolPre) =>
    /\ pooled.ok <=> \A j \in 1..PoolRank : StrideShrinkFits(j)
    /\ pooled.ok => PoolAddressesWindows

----------------------------------------------------------------------------
(* Properties of prepareConv *)

Prepared == args.op = "conv" /\ pc \in {"prepared", "done"}

ConvKs == SubSeq(args.rhsShape, 3, Len(args.rhsShape))

ReductionSize == args.lhsShape[2] * prod(ConvKs)

\* the lhs after lhs dilation and zero padding, at batch b, channel c and
\* spatial position q
DilatedPaddedLhs(b, c, q) ==
  LET t == [a \in 1..Spatial |-> q[a] - args.params.padding[a][1]]
      ld == [a \in 1..Spatial |-> Num(args.params.lhsDilation[a])]
  IN IF \A a \in 1..Spatial :
          /\ t[a] >= 0
          /\ t[a] <= (args.lhsShape[a + 2] - 1) * ld[a]
          /\ t[a] % ld[a] = 0
     THEN lhsData(Ravel(<<b, c>> \o [a \in 1..Spatial |-> t[a] \div ld[a]],
                        args.lhsShape))
     ELSE 0

RECURSIVE SlidingDot(_, _)
\* sum over input channel c and kernel position j, for reduction positions
\* 0..r-1, of X[b, c, p * stride + j * rhsDilation] * W[oc, c, j]
SlidingDot(mo, r) ==
  IF r = 0 THEN 0
  ELSE LET cj == Unravel(r - 1, <<args.lhsShape[2]>> \o ConvKs)
           q == [a \in 1..Spatial |->
                   mo[a + 2] * Num(args.params.strides[a])
                   + cj[a + 1] * Num(args.params.rhsDilation[a])]
       IN SlidingDot(mo, r - 1)
          + DilatedPaddedLhs(mo[1], cj[1], q)
            * rhsData(Ravel(<<mo[2]>> \o cj, args.rhsShape))

DirectConv ==
  [shape |-> outShape.shape,
   vals |-> [n \in 1..prod(outShape.shape) |->
               SlidingDot(Unravel(n - 1, outShape.shape), ReductionSize)]]

ViewsOk ==
  /\ views[1].ok /\ views[2].ok
  /\ Broadcastable(views[1].shape, views[2].shape)

\* C5: the two prepared views, multiplied with broadcasting and summed
\* over the final axis, give the direct sliding dot product of the dilated
\* and zero-padded lhs with the unflipped kernel
C5_AsStated ==
  Prepared => (ViewsOk /\ conv(views[1], views[2]) = DirectConv)

\* [[[1,2,3,4,5]]] with kernel [[[2,0.5,-1]]] gives [[[0,1.5,3]]] (halves)
C5_TestCase ==
  (/\ pc = "done"
   /\ args = ConvArgs(<<1, 1, 5>>, <<1, 1, 3>>, <<2>>, << <<0, 0>> >>,
                      <<2>>, <<2>>))
  => out = [shape |-> <<1, 1, 3>>, vals |-> <<0, 3, 6>>]

LhsShapeSpec ==
  <<args.lhsShape[1], 1>>
  \o SubSeq(outShape.shape, 3, Len(outShape.shape))
  \o <<ReductionSize>>

RhsShapeSpec == <<args.rhsShape[1]>> \o rep(Spatial, 1) \o <<ReductionSize>>

\* C6: for accepted operands prepareConv returns an lhs view of shape
\* [batch, 1, ...spatialOut, channels * kernelVolume] and an rhs view of
\* shape [outChannels, 1, ..., 1, channels * kernelVolume], spatialOut being
\* the spatial part of what checkConvShape returned
C6_AsStated ==
  Prepared =>
    /\ views[1].ok /\ views[1].shape = LhsShapeSpec
    /\ views[2].ok /\ views[2].shape = RhsShapeSpec

\* what does hold: whenever prepareConv is not rejected, its views have
\* the stated shapes and compute the sliding dot product
Conv_WhenLowered ==
  (Prepared /\ views[1].ok) =>
    /\ views[1].shape = LhsShapeSpec
    /\ views[2].ok /\ views[2].shape = RhsShapeSpec
    /\ conv(views[1], views[2]) = DirectConv
    /\ pc = "done" => out = DirectConv

----------------------------------------------------------------------------
(* The backend: malloc, incRef, decRef, execute and read over a table of   *)
(* buffer handles, with a device that completes the issued commands in     *)
(* order and evaluates the output elements of an execute in any order.     *)
(* The buffers and expressions are those of the cpu test: a = [1,2,3],     *)
(* b = [4,5,6], c without initial bytes, mul and add over two accessors.   *)

\* the buffers a, b and c that the cpu test allocates
NumBuffers == 3

\* ShapeTracker.fromShape([3]) of the cpu test: elements per buffer
ElemCount == 3

\* bytes per float32 element
ElemBytes == 4

ByteSize == ElemCount * ElemBytes

Zeros == [i \in 1..ElemCount |-> 0]

NoBytes == <<>>

\* the initial bytes the test gives the buffer it allocates h-th
TestBytes(h) ==
  IF h = 1 THEN <<1, 2, 3>> ELSE IF h = 2 THEN <<4, 5, 6>> ELSE NoBytes

\* what malloc may be given: the bytes of the test or bytes of a wrong length
InitialBytes(h) == { TestBytes(h), <<1, 2>> }

Handles == 1..Len(refcount)

\* Float32Array: the element type of the buffers of the test
BufferType == "float32"

\* an expression over two accessors of the given operands, reading extent
\* elements of element type dtype
Expr(kind, in1, in2, output, flip, extent, dtype) ==
  [kind |-> kind, in1 |-> in1, in2 |-> in2, out |-> output, flip |-> flip,
   extent |-> extent, dtype |-> dtype]

\* the expressions given to execute: the product and the sum of the test,
\* a sum that consumes an earlier output, a product whose output aliases an
\* input that is read through a flipped view, a product whose accessors
\* address one element more than the buffers hold, and a sum over another
\* element type
Expressions ==
  { e \in { Expr("mul", 1, 2, 3, FALSE, ElemCount, BufferType),
            Expr("add", 1, 2, 3, FALSE, ElemCount, BufferType),
            Expr("add", 3, 1, 2, FALSE, ElemCount, BufferType),
            Expr("mul", 1, 2, 2, TRUE, ElemCount, BufferType),
            Expr("mul", 1, 2, 3, FALSE, ElemCount + 1, BufferType),
            Expr("add", 1, 2, 3, FALSE, ElemCount, "int32") } :
      e.in1 \in Handles /\ e.in2 \in Handles /\ e.out \in Handles }

AluOp(kind, x, y) == IF kind = "mul" THEN x * y ELSE x + y

\* the element the accessor of the second argument reads for output
\* position pos: the identity view, or the flipped one
Access(e, pos) == IF e.flip THEN ElemCount + 1 - pos ELSE pos

\* a plausible slip: an element computed from the previous output element
ElementValueChained(e, pos, mem) ==
  AluOp(e.kind,
        IF pos > 1 THEN mem[e.out][pos - 1] ELSE mem[e.in1][pos],
        mem[e.in2][Access(e, pos)])

\* the expression evaluated for output position pos over memory mem
ElementValue(e, pos, mem) ==
  AluOp(e.kind, mem[e.in1][pos], mem[e.in2][Access(e, pos)])

Aliases(e) == e.out = e.in1 \/ e.out = e.in2

\* some handle of hs has a reference count of zero
NamesDead(hs) == \E j \in 1..Len(hs) : refcount[hs[j]] = 0

\* the caller awaits every read (cpu.test.ts, "await backend.read(c)"): it
\* makes no call while a read of its own is pending
CallerReady == \A k \in 1..Len(queue) : queue[k].type # "read"

\* a call has been made that names the handles hs; bad: its other
\* arguments do not pass validation
CalledWith(hs, bad) ==
  /\ CallerReady
  /\ lastOp' = [Step("call", NamesDead(hs), NoExpr, <<>>) EXCEPT !.bad = bad]
  /\ readResult' = NoRead

\* a call that names the handles hs and has no other argument to validate
Called(hs) == CalledWith(hs, FALSE)

\* the call op is refused with error err and changes nothing
Failed(err, op) ==
  /\ lastError' = <<err, op>>
  /\ UNCHANGED <<refcount, held, released, data, writer, expected, tainted,
                 issued, queue>>

\* the call returns normally
Succeeded == lastError' = NoError

\* initial bytes are given and their length is not byteSize
LengthDiffers(bytes) == bytes # NoBytes /\ Len(bytes) * ElemBytes # ByteSize

\* a plausible slip: the length of the initial bytes left unchecked
MallocRefusedNever(bytes) == FALSE

\* the validation of malloc
MallocRefused(bytes) == LengthDiffers(bytes)

\* malloc(byteSize, initialBytes)
Malloc(bytes) ==
  /\ Len(refcount) < NumBuffers
  /\ CalledWith(<<>>, LengthDiffers(bytes))
  /\ IF MallocRefused(bytes)
     THEN Failed("size", "malloc")
     ELSE LET contents == IF bytes = NoBytes THEN Zeros ELSE bytes
          IN /\ refcount' = Append(refcount, 1)
             /\ held' = Append(held, TRUE)
             /\ released' = Append(released, 0)
             /\ data' = Append(data, contents)
             /\ writer' = Append(writer, [i \in 1..ElemCount |-> 0])
             /\ expected' = Append(expected, contents)
             /\ tainted' = Append(tainted, FALSE)
             /\ Succeeded
             /\ UNCHANGED <<issued, queue>>
  /\ UNCHANGED convVars
  /\ UNCHANGED readerVars

\* a plausible slip: the count of a released handle raised again
MayIncRefAlways(h) == TRUE

\* a reference is taken only on a handle whose count is not zero
MayIncRef(h) == refcount[h] > 0

\* incRef(handle)
IncRef(h) ==
  /\ refcount[h] < MaxRef
  /\ Called(<<h>>)
  /\ IF ~MayIncRef(h)
     THEN Failed("lifetime", "incRef")
     ELSE /\ refcount' = [refcount EXCEPT ![h] = @ + 1]
          /\ Succeeded
          /\ UNCHANGED <<held, released, data, writer, expected, tainted,
                         issued, queue>>
  /\ UNCHANGED convVars
  /\ UNCHANGED readerVars

\* a plausible slip: the memory released one reference early
ReleasesAtEarly(count) == count <= 1

\* the memory is released when the decremented count is zero
ReleasesAt(count) == count = 0

\* dropping one reference to h, as op, with err on a dead handle
Drop(h, op, err) ==
  /\ Called(<<h>>)
  /\ IF refcount[h] = 0
     THEN Failed(err, op)
     ELSE /\ refcount' = [refcount EXCEPT ![h] = @ - 1]
          /\ IF ReleasesAt(refcount[h] - 1)
             THEN /\ held' = [held EXCEPT ![h] = FALSE]
                  /\ released' = [released EXCEPT ![h] = @ + 1]
             ELSE UNCHANGED <<held, released>>
          /\ Succeeded
          /\ UNCHANGED <<data, writer, expected, tainted, issued, queue>>
  /\ UNCHANGED convVars
  /\ UNCHANGED readerVars

\* decRef(handle)
DecRef(h) == Drop(h, "decRef", "lifetime")

\* x.dispose() on the array that owns handle h
Dispose(h) == Drop(h, "dispose", "ReferenceError")

\* an array operation that takes the array owning handle h as an operand
\* without .ref: it consumes one reference
Consume(h) == Drop(h, "consume", "ReferenceError")

\* a plausible slip: the output handle left unchecked
ExecuteRefusedInputsOnly(e) == refcount[e.in1] = 0 \/ refcount[e.in2] = 0

\* execute is refused when an operand handle has no reference left
ExecuteRefused(e) ==
  refcount[e.in1] = 0 \/ refcount[e.in2] = 0 \/ refcount[e.out] = 0

\* an accessor of e addresses an offset past the elements of its buffer
AccessorPastEnd(e) == e.extent > ElemCount

\* the element type of e is not the one of the buffers bound to it
TypeMismatch(e) == e.dtype # BufferType

\* execute(expression, [in1, in2], [out]); the command is queued and the
\* call returns
Execute(e) ==
  /\ issued < MaxExec
  /\ CalledWith(<<e.in1, e.in2, e.out>>, AccessorPastEnd(e) \/ TypeMismatch(e))
  /\ IF ExecuteRefused(e)
     THEN Failed("lifetime", "execute")
     ELSE IF AccessorPastEnd(e)
     THEN Failed("bounds", "execute")
     ELSE IF TypeMismatch(e)
     THEN Failed("dtype", "execute")
     ELSE /\ issued' = issued + 1
          /\ queue' = Append(queue, [type |-> "exec", id |-> issued + 1,
                                     e |-> e, done |-> {}, snap |-> <<>>,
                                     want |-> <<>>, sure |-> FALSE])
          /\ expected' = [expected EXCEPT ![e.out] =
                            [pos \in 1..ElemCount |->
                               AluOp(e.kind, expected[e.in1][pos],
                                     expected[e.in2][Access(e, pos)])]]
          /\ tainted' = [tainted EXCEPT ![e.out] =
                           Aliases(e) \/ tainted[e.in1] \/ tainted[e.in2]]
          /\ Succeeded
          /\ UNCHANGED <<refcount, held, released, data, writer>>
  /\ UNCHANGED convVars
  /\ UNCHANGED readerVars

\* the most recently issued execute that writes h, 0 if there is none
LastExec(h) ==
  LET ids == {queue[k].id : k \in {j \in 1..Len(queue) :
                 queue[j].type = "exec" /\ queue[j].e.out = h}}
            \cup {writer[h][pos] : pos \in 1..ElemCount}
  IN CHOOSE id \in ids : \A j \in ids : j <= id

\* read(handle): the copy is queued behind the work issued before it
Read(h) ==
  /\ Called(<<h>>)
  /\ IF refcount[h] = 0
     THEN Failed("lifetime", "read")
     ELSE /\ queue' = Append(queue, [type |-> "read", id |-> LastExec(h),
                                     e |-> [NoExpr EXCEPT !.out = h],
                                     done |-> {}, snap |-> <<>>,
                                     want |-> expected[h],
                                     sure |-> ~tainted[h]])
          /\ Succeeded
          /\ UNCHANGED <<refcount, held, released, data, writer, expected,
                         tainted, issued>>
  /\ UNCHANGED convVars
  /\ UNCHANGED readerVars

\* the device evaluates one output element of the execute at the head of
\* the queue; the execute completes with its last element
DeviceElement(pos) ==
  /\ queue # <<>>
  /\ Head(queue).type = "exec"
  /\ pos \notin Head(queue).done
  /\ LET c == Head(queue)
         e == c.e
         snap == IF c.done = {} THEN <<data[e.in1], data[e.in2]>> ELSE c.snap
         done == c.done \cup {pos}
     IN /\ data' = [data EXCEPT ![e.out][pos] = ElementValue(e, pos, data)]
        /\ writer' = [writer EXCEPT ![e.out][pos] = c.id]
        /\ IF done = 1..ElemCount
           THEN /\ queue' = Tail(queue)
                /\ lastOp' = Step("complete", FALSE, e, snap)
           ELSE /\ queue' = <<[c EXCEPT !.done = done, !.snap = snap]>>
                            \o Tail(queue)
                /\ lastOp' = Step("element", FALSE, NoExpr, <<>>)
  /\ readResult' = NoRead
  /\ lastError' = NoError
  /\ UNCHANGED <<refcount, held, released, expected, tainted, issued>>
  /\ UNCHANGED convVars
  /\ UNCHANGED readerVars

\* a plausible slip: the copy made without waiting for the earlier work
ReadReadyNoBarrier(k) == TRUE

\* the completion barrier of read: every command issued before it is done
ReadReady(k) == k = 1

\* the device performs a queued read and hands the bytes to the caller
DeviceRead(k) ==
  /\ k \in 1..Len(queue)
  /\ queue[k].type = "read"
  /\ ReadReady(k)
  /\ readResult' = [h |-> queue[k].e.out, bytes |-> data[queue[k].e.out],
                    writers |-> writer[queue[k].e.out],
                    exec |-> queue[k].id, want |-> queue[k].want,
                    sure |-> queue[k].sure]
  /\ queue' = SubSeq(queue, 1, k - 1) \o SubSeq(queue, k + 1, Len(queue))
  /\ lastOp' = Step("readDone", FALSE, NoExpr, <<>>)
  /\ lastError' = NoError
  /\ UNCHANGED <<refcount, held, released, data, writer, expected, tainted,
                 issued>>
  /\ UNCHANGED convVars
  /\ UNCHANGED readerVars

ConvIdle ==
  /\ pc = "idle"
  /\ args = None
  /\ outShape = None
  /\ views = None
  /\ pooled = None
  /\ out = None

InitBackend == ConvIdle /\ BackendIdle /\ ReaderIdle

NextBackend ==
  \/ \E bytes \in InitialBytes(Len(refcount) + 1) : Malloc(bytes)
  \/ \E h \in Handles : IncRef(h)
  \/ \E h \in Handles : DecRef(h)
  \/ \E h \in Handles : Dispose(h)
  \/ \E h \in Handles : Consume(h)
  \/ \E e \in Expressions : Execute(e)
  \/ \E h \in Handles : Read(h)
  \/ \E pos \in 1..ElemCount : DeviceElement(pos)
  \/ \E k \in 1..(MaxExec + 1) : DeviceRead(k)

SpecBackend == InitBackend /\ [][NextBackend]_vars

----------------------------------------------------------------------------
(* Properties of the backend *)

\* the memory of every handle is held exactly while its count is not zero,
\* and has been released once exactly if its count is zero
HeldWhileReferenced ==
  \A h \in Handles :
    /\ held[h] <=> refcount[h] > 0
    /\ released[h] = IF refcount[h] = 0 THEN 1 ELSE 0

\* a new handle starts with one reference, and memory is released by the
\* step that takes the last reference and by no other
ReleasedByLastDecRef ==
  /\ Len(refcount') > Len(refcount) =>
       /\ Len(refcount') = Len(refcount) + 1
       /\ refcount'[Len(refcount')] = 1
       /\ held'[Len(refcount')]
  /\ \A h \in Handles :
       released'[h] # released[h] <=>
         (refcount[h] = 1 /\ refcount'[h] = 0)

\* C7: a handle has refcount 1 right after allocation, and its memory is
\* held exactly while its refcount is above zero: it is released by the
\* decRef that brings the count to zero, not before, not after, not twice
C7_RefcountLifetime == []HeldWhileReferenced /\ [][ReleasedByLastDecRef]_vars

\* one handle released after its last decRef, another with two references
C7_Witness ==
  \E h \in Handles, g \in Handles :
    /\ refcount[h] = 0 /\ ~held[h] /\ released[h] = 1
    /\ refcount[g] = 2 /\ held[g] /\ released[g] = 0

LifetimeErrors == {"lifetime", "ReferenceError"}

\* a call that names a handle whose count is zero throws: a lifetime error
\* from the backend, ReferenceError from an array
DeadHandleRefused ==
  (lastOp.op = "call" /\ lastOp.dead) =>
    /\ lastError[1] \in LifetimeErrors
    /\ lastError[2] \in {"dispose", "consume"}
         <=> lastError[1] = "ReferenceError"

\* a count that has reached zero stays zero
DeadStaysDead == \A h \in Handles : refcount[h] = 0 => refcount'[h] = 0

C9_ReadAfterExecute ==
  readResult.h # 0 =>
    /\ readResult.exec # 0 =>
         \A pos \in 1..ElemCount : readResult.writers[pos] = readResult.exec
    /\ readResult.sure => readResult.bytes = readResult.want

\* the read after the second execute of the test: add into the buffer that
\* held the product
C9_Witness ==
  /\ readResult.h = 3 /\ readResult.exec = 2
  /\ readResult.bytes = <<5, 7, 9>>
  /\ data[1] = <<1, 2, 3>> /\ data[2] = <<4, 5, 6>>

\* the output the expression e gives over the input contents snap
ElementwiseResult(e, snap) ==
  [pos \in 1..ElemCount |->
     AluOp(e.kind, snap[1][pos], snap[2][Access(e, pos)])]

CompletedAsSpecified ==
  /\ data[lastOp.e.out] = ElementwiseResult(lastOp.e, lastOp.snap)
  /\ data[lastOp.e.in1] = lastOp.snap[1]
  /\ data[lastOp.e.in2] = lastOp.snap[2]

\* C10: when the output of an execute aliases none of its inputs, the
\* output it leaves is the same for every order in which the elements are
\* evaluated, and its inputs are unchanged
C10_OrderIndependent ==
  (lastOp.op = "complete" /\ ~Aliases(lastOp.e)) => CompletedAsSpecified

\* the product of the test, completed
C10_Witness ==
  /\ lastOp.op = "complete" /\ ~Aliases(lastOp.e)
  /\ lastOp.e.kind = "mul"
  /\ data[3] = <<4, 10, 18>>

\* without the premise the result depends on the evaluation order
Aliased_OrderIndependent == lastOp.op = "complete" => CompletedAsSpecified

----------------------------------------------------------------------------
(* Validation is all or nothing *)

\* what a call could change: the handle table, the buffers and the work
\* issued to the device
BackendState == <<refcount, held, released, data, writer, issued, queue>>

\* the step is a call that does not pass validation
RejectedCall == lastOp'.op = "call" /\ (lastOp'.dead \/ lastOp'.bad)

----------------------------------------------------------------------------
(* The view algebra on its own: pad, then shrink back *)

\* shapes of one and two axes, zero extents included
ViewShapes ==
  { <<x>> : x \in 0..MaxExtent }
  \cup { <<x, y>> : x \in 0..MaxExtent, y \in 0..MaxExtent }

\* the axes of a view in reverse order
Reversed(st) == permute(st, [a \in 1..Len(st.shape) |-> Len(st.shape) - a])

\* views to operate on: identity views, transposed ones, ones that already
\* have a padded border, and ones that are a slice of a larger buffer
ViewsOver(shape) ==
  { fromShape(shape),
    Reversed(fromShape(shape)),
    pad(fromShape(shape), [a \in 1..Len(shape) |-> <<1, 0>>]),
    shrink(fromShape([a \in 1..Len(shape) |-> shape[a] + 1]),
           [a \in 1..Len(shape) |-> <<1, shape[a] + 1>>]) }

\* per-axis (low, high) padding amounts for a view of the given rank
Paddings(rank) ==
  [1..rank -> { <<lo, hi>> : lo \in 0..MaxPad, hi \in 0..MaxPad }]

ViewArgs(st, p) == [op |-> "view", st |-> st, p |-> p]

ViewInputs ==
  { ViewArgs(st, p) :
      st \in UNION { ViewsOver(shape) : shape \in ViewShapes },
      p \in Paddings(1) \cup Paddings(2) }

\* the ranges [low, low + originalExtent) that undo the padding p of st
Unpad(st, p) ==
  [a \in 1..Len(p) |-> <<p[a][1], p[a][1] + st.shape[a]>>]

\* shapes [a, b, ...k] with one and two spatial axes, zero extents included
DilationShapes ==
  { <<a, b, k>> : a \in 0..2, b \in 1..2, k \in 0..MaxExtent }
  \cup { <<a, b, k1, k2>> :
           a \in 0..2, b \in 1..2, k1 \in 0..MaxExtent, k2 \in 0..MaxExtent }

\* the sequence s in reverse order
Reverse(s) == [a \in 1..Len(s) |-> s[Len(s) + 1 - a]]

\* views of the given shape: the identity view, a transposed one, and one
\* that is a slice of a larger buffer
DilationViews(shape) ==
  { fromShape(shape),
    Reversed(fromShape(Reverse(shape))),
    shrink(fromShape([a \in 1..Len(shape) |-> shape[a] + 1]),
           [a \in 1..Len(shape) |-> <<1, shape[a] + 1>>]) }

DilationArgs(st, dilation) == [op |-> "dilate", st |-> st, dilation |-> dilation]

DilationInputs ==
  { DilationArgs(st, dilation) :
      st \in UNION { DilationViews(shape) : shape \in DilationShapes },
      dilation \in [1..1 -> 1..MaxDilation] \cup [1..2 -> 1..MaxDilation] }

InitView ==
  /\ pc = "start"
  /\ args \in { a \in ViewInputs : Len(a.p) = Len(a.st.shape) }
             \cup { a \in DilationInputs :
                      Len(a.dilation) = Len(a.st.shape) - 2 }
  /\ outShape = None
  /\ views = None
  /\ pooled = None
  /\ out = None
  /\ BackendIdle
  /\ ReaderIdle

\* st.pad(p)
Pad ==
  /\ pc = "start"
  /\ args.op = "view"
  /\ views' = <<pad(args.st, args.p)>>
  /\ pc' = "padded"
  /\ UNCHANGED <<args, outShape, pooled, out>>
  /\ UNCHANGED backendVars
  /\ UNCHANGED readerVars

\* .shrink(ranges) on the padded view
Shrink ==
  /\ pc = "padded"
  /\ args.op = "view"
  /\ views' = <<views[1], shrink(views[1], Unpad(args.st, args.p))>>
  /\ pc' = "shrunk"
  /\ UNCHANGED <<args, outShape, pooled, out>>
  /\ UNCHANGED backendVars
  /\ UNCHANGED readerVars

\* applyDilation(st, dilation)
ApplyDilation ==
  /\ pc = "start"
  /\ args.op = "dilate"
  /\ views' = <<applyDilation(args.st, args.dilation)>>
  /\ pc' = "dilated"
  /\ UNCHANGED <<args, outShape, pooled, out>>
  /\ UNCHANGED backendVars
  /\ UNCHANGED readerVars

NextView == Pad \/ Shrink \/ ApplyDilation

SpecView == InitView /\ [][NextView]_vars

----------------------------------------------------------------------------
(* Properties of applyDilation *)

Dilated == pc = "dilated"

\* the shape [a, b, ...((k - 1) * s + 1)]
DilatedShapeSpec ==
  [a \in 1..Len(args.st.shape) |->
     IF a <= 2 THEN args.st.shape[a]
     ELSE (args.st.shape[a] - 1) * args.dilation[a - 2] + 1]

\* index mi of the dilated view: the original index mi / s when every
\* spatial entry is a multiple of its dilation, padding otherwise
DilatedSource(mi) ==
  IF \A a \in 3..Len(mi) : mi[a] % args.dilation[a - 2] = 0
  THEN At(args.st, [a \in 1..Len(mi) |->
                      IF a <= 2 THEN mi[a]
                      ELSE mi[a] \div args.dilation[a - 2]])
  ELSE PadOffset

SpacesElements ==
  /\ views[1].ok
  /\ views[1].shape = DilatedShapeSpec
  /\ \A n \in 1..prod(DilatedShapeSpec) :
       views[1].idx[n] = DilatedSource(Unravel(n - 1, DilatedShapeSpec))

AllOnes == \A j \in 1..Len(args.dilation) : args.dilation[j] = 1

\* C13: applyDilation returns the view unchanged when every dilation is 1;
\* otherwise a view of shape [a, b, ...((k - 1) * s + 1)] whose spatial index
\* j addresses original index j / s when j is a multiple of s on every
\* spatial axis and reads as padding otherwise
C13_AsStated ==
  Dilated => IF AllOnes THEN views[1] = args.st ELSE SpacesElements

\* some spatial axis has no element and a dilation above 1
EmptyDilatedAxis ==
  \E j \in 1..Len(args.dilation) :
    args.st.shape[j + 2] = 0 /\ args.dilation[j] > 1

\* what does hold: applyDilation is rejected exactly when an axis without
\* elements has a dilation above 1, and is as stated otherwise
Dilation_WhenNonEmpty ==
  Dilated =>
    IF AllOnes THEN views[1] = args.st
    ELSE /\ views[1].ok <=> ~EmptyDilatedAxis
         /\ views[1].ok => SpacesElements

\* [[[1, 2, 3]]] dilated by 2 reads [[[1, 0, 2, 0, 3]]]
Dilation_Example ==
  (Dilated /\ args = DilationArgs(fromShape(<<1, 1, 3>>), <<2>>))
  => /\ views[1].shape = <<1, 1, 5>>
     /\ [n \in 1..5 |-> lhsData(views[1].idx[n])] = <<1, 0, 2, 0, 3>>

----------------------------------------------------------------------------
(* Every accepted convolution can be lowered *)

\* C14: for every operands and parameters that checkConvShape accepts,
\* prepareConv on the identity views completes with no reshape, shrink or
\* pad rejected, strides above the padded input extent and zero-extent
\* spatial or batch dimensions included
C14_AsStated == Prepared => (views[1].ok /\ views[2].ok)

\* extent of spatial axis j of the lhs after dilation and padding
PaddedIn(j) ==
  InSize(args.lhsShape[j + 2], Num(args.params.lhsDilation[j]),
         args.params.padding[j][1], args.params.padding[j][2])

\* the stride shrink of pool fits on spatial axis j
ConvStrideFits(j) ==
  LET i == PaddedIn(j)
      k == args.rhsShape[j + 2]
      st == Num(args.params.strides[j])
      d == Num(args.params.rhsDilation[j])
  IN PoolOut(i, k, st, d) * st <= i * PoolFactor(i, k, st, d) + d

\* spatial axis j of the lhs has no element and an lhs dilation above 1
ConvEmptyDilated(j) ==
  args.lhsShape[j + 2] = 0 /\ Num(args.params.lhsDilation[j]) > 1

\* what does hold: the lowering is rejected exactly when there is no
\* spatial axis, when an empty axis is dilated, or when a stride shrink
\* does not fit; the kernel view is never rejected
Lowered_Exactly ==
  Prepared =>
    /\ views[2].ok
    /\ views[1].ok <=>
         /\ Spatial > 0
         /\ \A j \in 1..Spatial : ~ConvEmptyDilated(j) /\ ConvStrideFits(j)

\* an empty batch is lowered and gives an empty result
EmptyBatch_Lowered ==
  (pc = "done" /\ args.lhsShape = <<0, 2, 4>> /\ args.rhsShape[3] = 2)
  => /\ views[1].ok /\ views[1].shape[1] = 0
     /\ out.vals = <<>>

-----------------------------------------------------------------------------
(* SyncReader.read: a buffer is read through 256 x 256 canvases of one      *)
(* pixel for every 4 bytes, once for every alpha mode. The staging buffer   *)
(* is modelled by its length and by the spans readData has filled, each     *)
(* with the alpha mode that filled it.                                      *)

alphaModes == <<"opaque", "premultiplied">>
width == 256
height == 256

\* the largest number of whole canvases of a read
MaxChunks == 2

\* Math.ceil(count / 4)
pixelsSize(count) == Ceil(count, 4)

bytesPerRow == width * 4

pixelsPerCanvas == width * height

wholeChunks(pixels) == pixels \div pixelsPerCanvas

\* a plausible slip: the rows of all the pixels, whole canvases included
remainderRowsOfAll(pixels) == pixels \div width

\* the whole rows after the whole canvases
remainderRows(pixels) == (pixels % pixelsPerCanvas) \div width

\* remainder after its second assignment: the pixels of the partial row
remainder(pixels) == (pixels % pixelsPerCanvas) % width

\* the components of every pixel the loop of readData assigns in a mode
Lanes(alphaMode) ==
  IF alphaMode = "premultiplied" THEN {3} ELSE {0, 1, 2}

\* new Uint8ClampedArray(valsGPU, at, length) throws a RangeError unless
\* the span lies inside the buffer
SpanFits(at, length) == at + length <= valsGPU.byteLength

\* readData(w, h, offset): the copy from the buffer at offset + start,
\* then the span of 4 * w * h bytes at offset filled in the components
\* of the alpha mode
readData(w, h) ==
  LET length == 4 * w * h
  IN IF SpanFits(offset, length)
     THEN valsGPU' = [valsGPU EXCEPT !.spans =
            Append(@, [alphaMode |-> alphaModes[passIndex],
                       offset |-> offset, length |-> length,
                       width |-> w, height |-> h,
                       source |-> offset + args.start])]
     ELSE valsGPU' = [valsGPU EXCEPT !.threw = TRUE]

Pixels == pixelsSize(args.count)

Reading == args.op = "read" /\ ~valsGPU.threw

\* the pass is at the loop over the whole canvases, with some left
CanvasesDue == pc = "canvases" /\ chunkIndex < wholeChunks(Pixels)

\* the pass is at the test of remainderRows, which is positive
RowsDue ==
  /\ pc = "canvases"
  /\ chunkIndex = wholeChunks(Pixels)
  /\ remainderRows(Pixels) > 0

\* the pass is at the test of remainder
AtColumns ==
  \/ pc = "rows"
  \/ pc = "canvases" /\ chunkIndex = wholeChunks(Pixels)
                     /\ remainderRows(Pixels) = 0

ColumnsDue == AtColumns /\ remainder(Pixels) > 0

\* the body of the outer loop has run to its end
PassOver == pc = "columns" \/ (AtColumns /\ remainder(Pixels) = 0)

\* counts around every boundary of the split: q whole canvases, r whole
\* rows, m pixels of a partial row, and d bytes short of the last pixel
ReadCounts ==
  { c \in { 4 * (q * pixelsPerCanvas + r * width + m) - d :
              q \in 0..MaxChunks, r \in {0, 1, height - 1},
              m \in {0, 1, width - 1}, d \in 0..3 } : c >= 0 }

ReadInputs ==
  [op : {"read"}, start : {0, 4 * width}, count : ReadCounts]

InitReader ==
  /\ pc = "start"
  /\ args \in ReadInputs
  /\ outShape = None
  /\ views = None
  /\ pooled = None
  /\ out = None
  /\ BackendIdle
  /\ ReaderIdle

\* read(buffer, start, count) up to the first pass of the outer loop
ReadBegin ==
  /\ pc = "start"
  /\ args.op = "read"
  /\ valsGPU' = [byteLength |-> pixelsSize(args.count) * 4,
                 spans |-> <<>>, threw |-> FALSE]
  /\ passIndex' = 1
  /\ chunkIndex' = 0
  /\ offset' = 0
  /\ pc' = "canvases"
  /\ UNCHANGED <<args, outShape, views, pooled, out, result>>
  /\ UNCHANGED backendVars

\* one turn of the loop over the whole canvases
ReadCanvas ==
  /\ Reading
  /\ CanvasesDue
  /\ readData(width, height)
  /\ offset' = offset + pixelsPerCanvas * 4
  /\ chunkIndex' = chunkIndex + 1
  /\ UNCHANGED <<pc, args, outShape, views, pooled, out, passIndex, result>>
  /\ UNCHANGED backendVars

\* the partial canvas of whole rows
ReadRows ==
  /\ Reading
  /\ RowsDue
  /\ readData(width, remainderRows(Pixels))
  /\ offset' = offset + remainderRows(Pixels) * width * 4
  /\ pc' = "rows"
  /\ UNCHANGED <<args, outShape, views, pooled, out, passIndex, chunkIndex,
                 result>>
  /\ UNCHANGED backendVars

\* the partial canvas of some columns of the first row
ReadColumns ==
  /\ Reading
  /\ ColumnsDue
  /\ readData(remainder(Pixels), 1)
  /\ pc' = "columns"
  /\ UNCHANGED <<args, outShape, views, pooled, out, passIndex, chunkIndex,
                 offset, result>>
  /\ UNCHANGED backendVars

\* the next turn of the loop over the alpha modes
NextPass ==
  /\ Reading
  /\ PassOver
  /\ passIndex < Len(alphaModes)
  /\ passIndex' = passIndex + 1
  /\ chunkIndex' = 0
  /\ offset' = 0
  /\ pc' = "canvases"
  /\ UNCHANGED <<args, outShape, views, pooled, out, valsGPU, result>>
  /\ UNCHANGED backendVars

\* return new Uint8Array(valsGPU, 0, count)
ReadReturn ==
  /\ Reading
  /\ PassOver
  /\ passIndex = Len(alphaModes)
  /\ result' = [byteOffset |-> 0, length |-> args.count,
                 threw |-> args.count > valsGPU.byteLength]
  /\ pc' = "returned"
  /\ UNCHANGED <<args, outShape, views, pooled, out, valsGPU, passIndex,
                 chunkIndex, offset>>
  /\ UNCHANGED backendVars

NextReader ==
  ReadBegin \/ ReadCanvas \/ ReadRows \/ ReadColumns \/ NextPass \/ ReadReturn

SpecReader == InitReader /\ [][NextReader]_vars

\* the spans a pass in the given alpha mode has filled, in order
SpansOf(alphaMode) ==
  SelectSeq(valsGPU.spans, LAMBDA s : s.alphaMode = alphaMode)

SpanEnd(s) == s.offset + s.length

\* every span is not empty, lies inside the staging buffer, and begins
\* where the span before it ends, the first one at byte 0
Contiguous(ss) ==
  \A k \in 1..Len(ss) :
    /\ ss[k].length > 0
    /\ SpanEnd(ss[k]) <= valsGPU.byteLength
    /\ ss[k].offset = IF k = 1 THEN 0 ELSE SpanEnd(ss[k - 1])

\* 1 for a whole canvas, 2 for whole rows, 3 for a partial row
SpanKind(s) ==
  IF s.width = width /\ s.height = height THEN 1
  ELSE IF s.width = width /\ s.height \in 1..(height - 1) THEN 2
  ELSE IF s.width \in 1..(width - 1) /\ s.height = 1 THEN 3
  ELSE 0

\* whole canvases, then at most one span of whole rows, then at most one
\* partial row
CanvasesRowsColumns(ss) ==
  /\ \A k \in 1..Len(ss) : SpanKind(ss[k]) # 0
  /\ \A k \in 2..Len(ss) :
       /\ SpanKind(ss[k - 1]) <= SpanKind(ss[k])
       /\ SpanKind(ss[k]) > 1 => SpanKind(ss[k - 1]) < SpanKind(ss[k])

\* the spans end at byte 4 * ceil(count / 4)
Covers(ss) ==
  (IF ss = <<>> THEN 0 ELSE SpanEnd(ss[Len(ss)])) = 4 * Ceil(args.count, 4)

\* the pass in the alpha mode of index m has run to its end
PassDone(m) ==
  \/ pc = "returned"
  \/ m < passIndex
  \/ m = passIndex /\ PassOver

\* the alpha modes whose spans assign byte b
WritesTo(b) ==
  { k \in DOMAIN valsGPU.spans :
      /\ valsGPU.spans[k].offset <= b
      /\ b < SpanEnd(valsGPU.spans[k])
      /\ (b % 4) \in Lanes(valsGPU.spans[k].alphaMode) }

\* the pixels next to a boundary of a span or of the staging buffer, and
\* the pixels of the first row; between two boundaries the spans that
\* hold a pixel do not change
BoundaryPixels ==
  ( UNION { { s.offset \div 4, SpanEnd(s) \div 4 - 1, SpanEnd(s) \div 4 } :
              s \in { valsGPU.spans[k] : k \in DOMAIN valsGPU.spans } }
    \cup (0..(width - 1))
    \cup { valsGPU.byteLength \div 4 - 1 } )
  \cap (0..(valsGPU.byteLength \div 4 - 1))

WrittenOnce(b) ==
  /\ Cardinality(WritesTo(b)) = 1
  /\ \A k \in WritesTo(b) :
       valsGPU.spans[k].alphaMode =
         IF b % 4 = 3 THEN "premultiplied" ELSE "opaque"

\* C15: for every count >= 0, in each of the two passes the spans read
\* are whole canvases, then whole rows, then one partial row; they are
\* contiguous from byte 0, do not overlap, stay inside the staging buffer
\* and, once the pass is over, end at byte 4 * ceil(count / 4); after both
\* passes every staging byte has been assigned exactly once, bytes 0 to 2
\* of a pixel by the opaque pass and byte 3 by the premultiplied pass, and
\* the result has exactly count bytes
C15_ReadSplit ==
  (args.op = "read" /\ pc # "start") =>
    /\ ~valsGPU.threw
    /\ valsGPU.byteLength = 4 * Ceil(args.count, 4)
    /\ \A m \in DOMAIN alphaModes :
         LET ss == SpansOf(alphaModes[m])
         IN /\ Contiguous(ss)
            /\ CanvasesRowsColumns(ss)
            /\ PassDone(m) => Covers(ss)
    /\ pc = "returned" =>
         /\ \A p \in BoundaryPixels : \A l \in 0..3 : WrittenOnce(4 * p + l)
         /\ result = [byteOffset |-> 0, length |-> args.count,
                      threw |-> FALSE]

\* a read of one whole canvas, one whole row and one pixel less a byte has
\* returned after three spans in each pass
C15_Witness ==
  /\ args.op = "read"
  /\ pc = "returned"
  /\ args.count = 4 * (pixelsPerCanvas + width + 1) - 1
  /\ Len(valsGPU.spans) = 6
  /\ result.length = args.count

====
